---- MODULE Spec2Model ----
(***************************************************************************)
(* Model of src/ztest.py: class TwoSampleZTest, its three compute methods, *)
(* compare_p_value_with_alpha and the orchestrating run_z_test.            *)
(*                                                                         *)
(* Numbers are kept on a grid: a probability n/Scale is the value Num(n).  *)
(* Python values that are not plain numbers are tagged records, so that    *)
(* `<` and `/` behave as the interpreter's do on None, str, nan and on a   *)
(* non-scalar numpy array.                                                 *)
(***************************************************************************)
EXTENDS Integers, Sequences, FiniteSets, TLC

\* ---- bounds of the model ------------------------------------------------
Scale == 2
MaxRuns == 2

\* ---- Python values ------------------------------------------------------
None == [tag |-> "none", v |-> 0]
NaN == [tag |-> "nan", v |-> 0]
Arr == [tag |-> "array", v |-> 0]
Str == [tag |-> "str", v |-> 0]
PosInf == [tag |-> "inf", v |-> 1]
NegInf == [tag |-> "inf", v |-> -1]
Num(n) == [tag |-> "num", v |-> n]
\* Phi^-1(n / (2*Scale)) for 0 < n < 2*Scale, named by its grid point
Quantile(n) == [tag |-> "quantile", v |-> n]

NoExc == [type |-> "", msg |-> ""]
TypeErrorLt == [type |-> "TypeError", msg |-> "'<' not supported between instances"]
TypeErrorDiv == [type |-> "TypeError", msg |-> "unsupported operand type(s) for /"]
ValueErrorTruth == [type |-> "ValueError", msg |-> "The truth value of an array is ambiguous"]
\* what stats.ttest_ind may raise on malformed samples
ProviderErrors == { [type |-> "ValueError", msg |-> "could not convert string to float"] }

\* classes caught by `except Exception`
ExceptionClasses == {"ValueError", "TypeError"}
\* variant: a handler written `except ValueError`
OnlyValueError(e) == e.type = "ValueError"
Catches(e) == e.type \in ExceptionClasses

RejectMsg == "Reject null hypothesis. There is a significant difference between the means."
FailMsg == "Fail to reject null hypothesis. There is no significant difference between the means."
ErrorMsg == "Error occurred during hypothesis test. Please check the input data."
InfoText == "Two-sample z-test completed successfully."
ErrorPrefix == "Error occurred during two-sample z-test: "

\* ---- inputs ---------------------------------------------------------------
\* (sample1, sample2) as passed to the constructor: two well-formed samples, and
\* an empty first sample
SamplePairs == { << <<10, 11>>, <<12, 13>> >>, << << >>, <<12, 13>> >> }
\* alpha as passed to the constructor: 0, 1/Scale, .., 1, one value above 1,
\* and a value that is no number
Alphas == { Num(a) : a \in 0..(Scale + 1) } \cup {Str}

\* ---- outcomes of a call ---------------------------------------------------
Return(val) == [kind |-> "return", val |-> val, text |-> "", exc |-> NoExc]
ReturnText(t) == [kind |-> "return", val |-> None, text |-> t, exc |-> NoExc]
Raise(e) == [kind |-> "raise", val |-> None, text |-> "", exc |-> e]

\* stats.ttest_ind(sample1, sample2): a (statistic, pvalue) pair or an error.
\* Scalars for 1-D samples, nan for degenerate ones, arrays for 2-D ones.
TTestOk(s, p) == [kind |-> "ok", stat |-> s, p |-> p, exc |-> NoExc]
TTestRaise(e) == [kind |-> "raise", stat |-> None, p |-> None, exc |-> e]
TTestOutcomes ==
    { TTestOk(Num(s), Num(p)) : s \in {-1, 1}, p \in 0..Scale }
    \cup { TTestOk(NaN, NaN), TTestOk(Arr, Arr) }
    \cup { TTestRaise(e) : e \in ProviderErrors }

VARIABLES self, oracle, pc, result, exc, log, returned, trace, entry

vars == <<self, oracle, pc, result, exc, log, returned, trace, entry>>

\* ---- the external providers ----------------------------------------------
\* oracle.det: the provider is a function of its (unchanged) arguments, so every
\* call gives oracle.tt; otherwise each call may succeed or fail on its own.
ttest_ind == IF oracle.det THEN {oracle.tt} ELSE TTestOutcomes

\* stats.norm.ppf at the probability n / (2*Scale)
norm_ppf(n) ==
    IF n < 0 \/ n > 2 * Scale THEN NaN
    ELSE IF n = 0 THEN NegInf
    ELSE IF n = 2 * Scale THEN PosInf
    ELSE Quantile(n)

\* ---- Python operators -----------------------------------------------------
\* variant: the comparison written `<=`
LtOrEqual(a, b) ==
    IF a.tag \in {"none", "str"} \/ b.tag \in {"none", "str"} THEN Raise(TypeErrorLt)
    ELSE IF a.tag = "array" \/ b.tag = "array" THEN Raise(ValueErrorTruth)
    ELSE IF a.tag = "num" /\ b.tag = "num" THEN Return(Num(IF a.v <= b.v THEN 1 ELSE 0))
    ELSE Return(Num(0))

\* variant: an ordering in which None compares below every value instead of raising
LtNoneIsSmallest(a, b) ==
    IF a.tag = "none" THEN Return(Num(IF b.tag = "none" THEN 0 ELSE 1))
    ELSE IF b.tag \in {"none", "str"} THEN Raise(TypeErrorLt)
    ELSE IF a.tag = "array" \/ b.tag = "array" THEN Raise(ValueErrorTruth)
    ELSE IF a.tag = "num" /\ b.tag = "num" THEN Return(Num(IF a.v < b.v THEN 1 ELSE 0))
    ELSE Return(Num(0))

\* a < b as the interpreter evaluates it, the truth test of `if` included: 1 or 0,
\* or the error raised
Lt(a, b) ==
    IF a.tag \in {"none", "str"} \/ b.tag \in {"none", "str"} THEN Raise(TypeErrorLt)
    ELSE IF a.tag = "array" \/ b.tag = "array" THEN Raise(ValueErrorTruth)
    ELSE IF a.tag = "num" /\ b.tag = "num" THEN Return(Num(IF a.v < b.v THEN 1 ELSE 0))
    ELSE Return(Num(0))

\* ---- TwoSampleZTest -------------------------------------------------------
TwoSampleZTest(sample1, sample2, alpha) ==
    [sample1 |-> sample1, sample2 |-> sample2, alpha |-> alpha,
     z_stat |-> None, p_value |-> None, z_critical |-> None]

Outcome(s, out) == [self |-> s, out |-> out]

\* variant: the method catches the provider's error and returns the error string
calculate_z_statistic_swallows(s, o) ==
    IF o.kind = "ok"
    THEN Outcome([s EXCEPT !.z_stat = o.stat], Return(o.stat))
    ELSE Outcome(s, ReturnText(ErrorMsg))

calculate_z_statistic(s, o) ==
    IF o.kind = "ok"
    THEN Outcome([s EXCEPT !.z_stat = o.stat], Return(o.stat))
    ELSE Outcome(s, Raise(o.exc))

\* variant: the p-value is unpacked into z_stat
calculate_p_value_wrong_field(s, o) ==
    IF o.kind = "ok"
    THEN Outcome([s EXCEPT !.z_stat = o.p], Return(o.p))
    ELSE Outcome(s, Raise(o.exc))

calculate_p_value(s, o) ==
    IF o.kind = "ok"
    THEN Outcome([s EXCEPT !.p_value = o.p], Return(o.p))
    ELSE Outcome(s, Raise(o.exc))

calculate_critical_value(s) ==
    IF s.alpha.tag # "num"
    THEN Outcome(s, Raise(TypeErrorDiv))
    ELSE LET q == norm_ppf(2 * Scale - s.alpha.v)
         IN  Outcome([s EXCEPT !.z_critical = q], Return(q))

\* variant: the decision also requires the critical value to have been computed
compare_needs_critical_value(s) ==
    LET c == Lt(s.p_value, s.alpha)
    IN  IF c.kind = "raise" THEN Outcome(s, c)
        ELSE IF s.z_critical = None THEN Outcome(s, Raise(TypeErrorLt))
        ELSE IF c.val.v = 1 THEN Outcome(s, ReturnText(RejectMsg))
        ELSE Outcome(s, ReturnText(FailMsg))

compare_p_value_with_alpha(s) ==
    LET c == Lt(s.p_value, s.alpha)
    IN  IF c.kind = "raise" THEN Outcome(s, c)
        ELSE IF c.val.v = 1 THEN Outcome(s, ReturnText(RejectMsg))
        ELSE Outcome(s, ReturnText(FailMsg))

\* ---- construction ---------------------------------------------------------
Oracles ==
    { [det |-> TRUE, tt |-> o] : o \in TTestOutcomes }
    \cup { [det |-> FALSE, tt |-> TTestOk(NaN, NaN)] }

NoCall == [call |-> "", out |-> ReturnText("")]
Called(name, out) == [call |-> name, out |-> out]
\* the fields and the log as run_z_test finds them on entry
Snapshot == << [self |-> self, loglen |-> Len(log)] >>

Init ==
    /\ self \in { TwoSampleZTest(s[1], s[2], a) : s \in SamplePairs, a \in Alphas }
    /\ oracle \in Oracles
    /\ pc = "idle"
    /\ result = ""
    /\ exc = NoExc
    /\ log = << >>
    /\ returned = NoCall
    /\ trace = << >>
    /\ entry = << >>

\* ---- direct calls of the methods -----------------------------------------
Direct(name, r) ==
    /\ pc = "idle"
    /\ self' = r.self
    /\ returned' = Called(name, r.out)
    /\ UNCHANGED <<oracle, pc, result, exc, log, trace, entry>>

CallCalculateZStatistic ==
    \E o \in ttest_ind : Direct("calculate_z_statistic", calculate_z_statistic(self, o))

CallCalculatePValue ==
    \E o \in ttest_ind : Direct("calculate_p_value", calculate_p_value(self, o))

CallCalculateCriticalValue ==
    Direct("calculate_critical_value", calculate_critical_value(self))

CallCompare ==
    Direct("compare_p_value_with_alpha", compare_p_value_with_alpha(self))

\* ---- run_z_test -----------------------------------------------------------
\* the statements of the try block, in program order
\* variant: the call of calculate_critical_value left out
TryBlockSkipsCritical ==
    << "calculate_z_statistic", "calculate_p_value",
       "compare_p_value_with_alpha", "logging_info" >>
TryBlock ==
    << "calculate_z_statistic", "calculate_p_value", "calculate_critical_value",
       "compare_p_value_with_alpha", "logging_info" >>

After(name) ==
    LET i == CHOOSE k \in 1..Len(TryBlock) : TryBlock[k] = name
    IN  IF i < Len(TryBlock) THEN TryBlock[i + 1] ELSE "return"

InfoRecord == [level |-> "INFO", msg |-> InfoText]
\* variant: the error record without the exception's message
ErrorRecordWithoutMessage(e) == [level |-> "ERROR", msg |-> ErrorPrefix]
ErrorRecord(e) == [level |-> "ERROR", msg |-> ErrorPrefix \o e.msg]

\* one statement of the try block: r is what the called method did
Statement(name, r) ==
    /\ pc = name
    /\ self' = r.self
    /\ IF r.out.kind = "raise"
       THEN IF Catches(r.out.exc)
            THEN /\ pc' = "except"
                 /\ exc' = r.out.exc
                 /\ trace' = Append(trace, name)
                 /\ UNCHANGED <<result, returned, entry>>
            ELSE /\ pc' = "idle"
                 /\ returned' = Called("run_z_test", r.out)
                 /\ result' = ""
                 /\ exc' = NoExc
                 /\ trace' = << >>
                 /\ entry' = << >>
       ELSE /\ pc' = After(name)
            /\ result' = IF name = "compare_p_value_with_alpha" THEN r.out.text ELSE result
            /\ trace' = Append(trace, name)
            /\ UNCHANGED <<exc, returned, entry>>
    /\ UNCHANGED <<oracle, log>>

RunBegin ==
    /\ pc = "idle"
    /\ Len(log) < MaxRuns
    /\ pc' = TryBlock[1]
    /\ trace' = << >>
    /\ entry' = Snapshot
    /\ returned' = NoCall
    /\ result' = ""
    /\ exc' = NoExc
    /\ UNCHANGED <<self, oracle, log>>

RunCalculateZStatistic ==
    \E o \in ttest_ind : Statement("calculate_z_statistic", calculate_z_statistic(self, o))

RunCalculatePValue ==
    \E o \in ttest_ind : Statement("calculate_p_value", calculate_p_value(self, o))

RunCalculateCriticalValue ==
    Statement("calculate_critical_value", calculate_critical_value(self))

RunCompare ==
    Statement("compare_p_value_with_alpha", compare_p_value_with_alpha(self))

RunLoggingInfo ==
    /\ pc = "logging_info"
    /\ log' = Append(log, InfoRecord)
    /\ pc' = After("logging_info")
    /\ UNCHANGED <<self, oracle, result, exc, returned, trace, entry>>

RunExcept ==
    /\ pc = "except"
    /\ log' = Append(log, ErrorRecord(exc))
    /\ result' = ErrorMsg
    /\ pc' = "return"
    /\ UNCHANGED <<self, oracle, exc, returned, trace, entry>>

\* return result: the frame of run_z_test (result, e, the record of the run) ends
RunReturn ==
    /\ pc = "return"
    /\ returned' = Called("run_z_test", ReturnText(result))
    /\ pc' = "idle"
    /\ result' = ""
    /\ exc' = NoExc
    /\ trace' = << >>
    /\ entry' = << >>
    /\ UNCHANGED <<self, oracle, log>>

RunStep ==
    \/ RunCalculateZStatistic
    \/ RunCalculatePValue
    \/ RunCalculateCriticalValue
    \/ RunCompare
    \/ RunLoggingInfo
    \/ RunExcept
    \/ RunReturn

Next ==
    \/ CallCalculateZStatistic
    \/ CallCalculatePValue
    \/ CallCalculateCriticalValue
    \/ CallCompare
    \/ RunBegin
    \/ RunStep

Spec == Init /\ [][Next]_vars

\* run_z_test has no suspension point: once entered it runs to its return
FairSpec == Spec /\ WF_vars(RunStep)

\* ---- vocabulary of the properties ----------------------------------------
Verdicts == {RejectMsg, FailMsg}
\* p < alpha as numbers; false when either is no number (nan included)
StrictlyBelow(p, a) == p.tag = "num" /\ a.tag = "num" /\ p.v < a.v
ComputeOrder ==
    << "calculate_z_statistic", "calculate_p_value", "calculate_critical_value" >>
RunOrder == ComputeOrder \o << "compare_p_value_with_alpha" >>
Cached(s) == << s.z_stat, s.p_value, s.z_critical >>
Running == entry # << >>
Failed == exc # NoExc
\* the steps of the current run that finished without raising
Completed == IF Failed THEN Len(trace) - 1 ELSE Len(trace)
RunReturned == returned.call = "run_z_test"

\* C1: run_z_test always comes back to its caller, and always by returning one of
\* the three strings (reject, fail to reject, error); no exception leaves it.
C1_RunReturnsOneOfThreeStrings ==
    /\ [](RunReturned =>
            /\ returned.out.kind = "return"
            /\ returned.out.text \in Verdicts \cup {ErrorMsg})
    /\ [](pc = "return" => result \in Verdicts \cup {ErrorMsg})
    /\ (Running ~> (pc = "idle" /\ RunReturned))

\* C1 witness: a run whose second step failed has returned the error string
C1_Witness ==
    /\ RunReturned
    /\ returned.out.text = ErrorMsg
    /\ self.z_stat # None
    /\ self.p_value = None

\* C2: a verdict is the reject string exactly when p_value < alpha, and the fail to
\* reject string otherwise (p_value = alpha included); a run's verdict matches the
\* p_value that run cached.
C2_RejectIffPBelowAlpha ==
    /\ (returned.call = "compare_p_value_with_alpha" /\ returned.out.kind = "return") =>
         /\ returned.out.text \in Verdicts
         /\ returned.out.text = RejectMsg <=> StrictlyBelow(self.p_value, self.alpha)
    /\ (pc = "return" /\ result \in Verdicts) =>
         /\ "calculate_p_value" \in { trace[i] : i \in 1..Len(trace) }
         /\ result = RejectMsg <=> StrictlyBelow(self.p_value, self.alpha)
    /\ (RunReturned /\ returned.out.text \in Verdicts) =>
         (returned.out.text = RejectMsg <=> StrictlyBelow(self.p_value, self.alpha))

\* C2 witness: the boundary p_value = alpha gave "fail to reject"
C2_Witness ==
    /\ RunReturned
    /\ self.p_value.tag = "num"
    /\ self.p_value = self.alpha
    /\ returned.out.text = FailMsg

\* C3: the steps of a run happen in the order statistic, p-value, critical value,
\* verdict, each starting after the one before it completed, none skipped; a run
\* that returns a verdict has cached all three values.
C3_FixedStepOrder ==
    /\ Running =>
         /\ Len(trace) <= Len(RunOrder)
         /\ \A i \in 1..Len(trace) : trace[i] = RunOrder[i]
         /\ \A i \in 1..Len(RunOrder) : pc = RunOrder[i] => Len(trace) = i - 1 /\ ~Failed
    /\ (pc = "return" /\ result \in Verdicts) =>
         /\ trace = RunOrder
         /\ \A i \in 1..3 : Cached(self)[i] # None
    /\ (RunReturned /\ returned.out.text \in Verdicts) =>
         \A i \in 1..3 : Cached(self)[i] # None

\* C3 witness: a run is about to return the reject verdict
C3_Witness == pc = "return" /\ result = RejectMsg /\ trace = RunOrder

\* C4: when a step of a run fails, no later step runs and the step is not retried,
\* the run returns the fixed error string, and the run adds exactly one log record:
\* an error record with the failure's message, and no info record.
C4_FailureAbortsAndLogsOnce ==
    /\ pc = "except" => Failed
    /\ (Running /\ Failed) =>
         /\ pc \in {"except", "return"}
         /\ Len(trace) \in 1..Len(RunOrder)
         /\ \A i \in 1..3 : i >= Len(trace) => Cached(self)[i] = Cached(entry[1].self)[i]
         /\ pc = "except" => Len(log) = entry[1].loglen
    /\ (pc = "return" /\ Failed) =>
         /\ result = ErrorMsg
         /\ Len(log) = entry[1].loglen + 1
         /\ log[Len(log)] = [level |-> "ERROR", msg |-> ErrorPrefix \o exc.msg]
    /\ (RunReturned /\ returned.out.text = ErrorMsg) =>
         (Len(log) > 0 /\ log[Len(log)].level = "ERROR")

\* C4 witness: the third step failed and the run is about to return
C4_Witness == pc = "return" /\ exc = TypeErrorDiv /\ Len(trace) = 3

\* ---- direct calls: what the caller gets ------------------------------------
\* a direct call that raised hands the caller the provider's error itself: nothing
\* returned, no error string, no log record, no field assigned
PropagatesUnmodified ==
    /\ returned'.out.kind = "raise" =>
         /\ returned'.out = Raise(returned'.out.exc)
         /\ returned'.out.exc \in ProviderErrors \cup {TypeErrorDiv}
         /\ self' = self
    /\ returned'.out.text # ErrorMsg
    /\ log' = log

\* C5: a failure inside a direct call of calculate_z_statistic, calculate_p_value or
\* calculate_critical_value reaches the caller as the raised error, unmodified:
\* the method returns nothing, builds no error string and logs nothing.
C5_DirectCallsPropagate ==
    [][ /\ (CallCalculateZStatistic \/ CallCalculatePValue) =>
             /\ PropagatesUnmodified
             /\ (oracle.det /\ oracle.tt.kind = "raise") =>
                  returned'.out = Raise(oracle.tt.exc)
        /\ CallCalculateCriticalValue =>
             /\ PropagatesUnmodified
             /\ self.alpha.tag # "num" => returned'.out = Raise(TypeErrorDiv)
      ]_vars

\* C5 witness: a direct calculate_p_value raised after the statistic was cached,
\* and nothing was logged
C5_Witness ==
    /\ returned = Called("calculate_p_value", Raise(returned.out.exc))
    /\ returned.out.exc \in ProviderErrors
    /\ self.z_stat # None
    /\ log = << >>

\* C6 as stated: compare_p_value_with_alpha on a runner whose p_value is still None
\* fails with StateError and returns no verdict.
C6_Original_StateError ==
    (returned.call = "compare_p_value_with_alpha" /\ self.p_value = None) =>
        /\ returned.out.kind = "raise"
        /\ returned.out.exc.type = "StateError"

\* C6 amended: compare_p_value_with_alpha on a runner whose p_value is still None
\* raises the interpreter's TypeError for None < alpha, whatever else is cached,
\* and returns neither verdict string.
C6_VerdictBeforePValueRaisesTypeError ==
    (returned.call = "compare_p_value_with_alpha" /\ self.p_value = None) =>
        /\ returned.out = Raise(TypeErrorLt)
        /\ returned.out.text \notin Verdicts

\* C6 witness: the verdict was asked for with statistic and critical value cached
\* but no p_value
C6_Witness ==
    /\ returned.call = "compare_p_value_with_alpha"
    /\ self.p_value = None
    /\ self.z_stat # None
    /\ self.z_critical # None

\* C7 as stated: construction rejects an alpha outside the open interval (0, 1), so
\* every runner that exists has 0 < alpha < 1.
C7_AlphaInOpenUnitInterval ==
    /\ self.alpha.tag = "num"
    /\ 0 < self.alpha.v
    /\ self.alpha.v < Scale

\* C8 as stated: when a run is about to return, the three cached fields are either
\* all values that run produced or all as they were when the run began.
C8_AtomicOverwrite ==
    pc = "return" =>
        \/ Completed >= Len(ComputeOrder)
        \/ Cached(self) = Cached(entry[1].self)

\* C9: with deterministic providers, calling a compute method whose value is
\* already cached returns that same value and leaves every field as it was.
C9_ComputeMethodsIdempotent ==
    [][ oracle.det =>
          /\ (CallCalculateZStatistic /\ self.z_stat # None) =>
               (self' = self /\ returned'.out = Return(self.z_stat))
          /\ (CallCalculatePValue /\ self.p_value # None) =>
               (self' = self /\ returned'.out = Return(self.p_value))
          /\ (CallCalculateCriticalValue /\ self.z_critical # None) =>
               (self' = self /\ returned'.out = Return(self.z_critical))
      ]_vars

\* C9 witness: after a complete run cached all three values, calculate_z_statistic
\* was called again directly
C9_Witness ==
    /\ oracle.det
    /\ Len(log) > 0
    /\ log[1].level = "INFO"
    /\ returned.call = "calculate_z_statistic"
    /\ returned.out = Return(self.z_stat)

\* the values the statistic and the critical value can hold
StatValues == { o.stat : o \in TTestOutcomes }
CriticalValues == {None} \cup { norm_ppf(n) : n \in -1..(2 * Scale) }

\* C10: the verdict is a function of p_value and alpha alone (changing the cached
\* statistic and critical value never changes it), and computing it changes no
\* field of the runner.
C10_VerdictReadsOnlyPValueAndAlpha ==
    /\ [](\A z \in StatValues, c \in CriticalValues :
            compare_p_value_with_alpha([self EXCEPT !.z_stat = z, !.z_critical = c]).out
              = compare_p_value_with_alpha(self).out)
    /\ [][(CallCompare \/ RunCompare) => self' = self]_vars

\* C10 witness: a verdict was returned while neither the statistic nor the critical
\* value had been computed
C10_Witness ==
    /\ returned.call = "compare_p_value_with_alpha"
    /\ returned.out.text \in Verdicts
    /\ self.z_stat = None
    /\ self.z_critical = None
====
